---------------------------- MODULE Spec2Model ----------------------------
(***************************************************************************)
(* Model of the answer-quality control loop of src/rag_workflow.py:        *)
(* the LangGraph state graph built by RAGWorkflow._create_graph, its four  *)
(* nodes (_retrieve, _evaluate, _generate_answer, _search_online), its two *)
(* routers (_any_doc_irrelevant, _check_hallucinations), the retriever     *)
(* bookkeeping of RAGWorkflow (get_current_retriever, set_retriever,       *)
(* process_question) and the upload path of app.py / document_processor.py *)
(* that stores a retriever in the session state.                           *)
(*                                                                         *)
(* The graph channels of GraphState are the variables question, documents, *)
(* online_search, search_method, solution and document_evaluations; keys   *)
(* is the set of channels that have been written in the current run (a     *)
(* channel takes a value only from the dict a node returns).  The          *)
(* collaborators (retriever, grader, generator, web search, the two        *)
(* checkers) are nondeterministic: each call returns any value of its      *)
(* result type or raises.                                                  *)
(***************************************************************************)
EXTENDS Naturals, Sequences, FiniteSets

\* ---------------------------------------------------------------- bounds
\* largest number of passages a retriever lookup returns
MaxDocs == 3
\* largest number of WebSearch invocations followed within one run
MaxWeb == 2
\* value at which the per-run counters of generator and checker calls saturate
MaxGen == 2
\* number of runs that execute concurrently on one workflow instance
NumThreads == 2

\* config.TAVILY_SEARCH_RESULTS: the k of TavilySearchResults(k=...)
TAVILY_SEARCH_RESULTS == 2

\* ------------------------------------------------------------ value sets
None == "None"
Files == {"A", "B"}
Questions == {"q1", "q2"}
Answers == {"a1", "a2"}
\* the concurrently executing callers of process_question
Threads == 1..NumThreads
\* exceptions a retriever lookup may raise (subclasses of Exception)
LookupErrors == {"ValueError", "InvalidCollectionException"}
\* the collaborators that are handed the question
Askers == {"Retriever", "Grader", "WebSearch", "Generator", "RelevanceChecker"}
\* values the grader may put in EvaluateDocs.score (a free string)
Scores == {"yes", "YES", "no", "maybe"}

\* mutant: the score is compared as the grader wrote it
Lower_CaseSensitive(s) == s

\* str.lower() on the score values
Lower(s) == IF s = "YES" THEN "yes" ELSE s

Min(a, b) == IF a < b THEN a ELSE b

\* the passages a retriever lookup returns, in retrieval order
LocalDoc(i) == [origin |-> "local", id |-> i]
RetrieverResult(n) == [i \in 1..n |-> LocalDoc(i)]
\* Document(page_content="\n".join(...)) built from the k-th web response
WebDoc(k) == [origin |-> "web", id |-> k]

\* the response of tavily_client.invoke: a list of n results, each with a
\* "content" snippet
TavilyResponse(n) == [i \in 1..n |-> [content |-> <<i>>]]
\* "\n".join([element["content"] for element in response]): the snippets
\* one after the other in one string
RECURSIVE JoinContents(_)
JoinContents(response) ==
    IF response = <<>>
      THEN <<>>
      ELSE response[1].content \o JoinContents(Tail(response))

\* node and terminal labels of the compiled graph
RETRIEVE == "Retrieve Documents"
GRADE == "Grade Documents"
GENERATE == "Generate Answer"
SEARCH == "Search Online"
CHECK == "Check Hallucinations"
END == "END"
IDLE == "idle"
ERROR == "error"

VARIABLES
    \* RAGWorkflow instance and streamlit session state
    retriever, ss_retriever, processed_file, graph_instance,
    \* the file in the upload widget (user_file of app.py main)
    user_file,
    \* position of the current graph.invoke
    pc,
    \* graph channels of the current run
    keys, question, documents, online_search, search_method, solution,
    document_evaluations,
    \* locals of the latest _check_hallucinations call, written by it into its
    \* state argument
    doc_relevance_score, question_relevance_score,
    \* observation of the current run (collaborator calls made so far)
    hist,
    \* the concurrent runs: position and locals of each caller
    threads

procVars == <<retriever, ss_retriever, processed_file, graph_instance,
              user_file>>
chanVars == <<keys, question, documents, online_search, search_method,
              solution, document_evaluations>>
checkVars == <<doc_relevance_score, question_relevance_score>>
vars == <<procVars, pc, chanVars, checkVars, hist, threads>>

\* observation record at the start of a run
HistInit(q, r) ==
    [origQuestion |-> q,        \* argument of process_question
     startRetriever |-> r,      \* retriever found by process_question
     retrieveOutcome |-> "pending", \* "none" | "failed" | "ok"
     retrieved |-> <<>>,        \* passages returned by the retriever lookup
     retrieverCalls |-> 0,
     graderCalls |-> 0,
     graded |-> <<>>,           \* passages handed to the grader, in call order
     webCalls |-> 0,
     webQuery |-> None,         \* query of the latest WebSearch call
     asked |-> [c \in Askers |-> {}], \* questions handed to each collaborator
     webResponse |-> <<>>,      \* locals of the _search_online call just made:
     webContent |-> <<>>,       \* the response and the joined page_content
                                \* (gone when the next node runs)
     genCalls |-> 0,            \* saturates at MaxGen
     genDocs |-> <<>>,          \* context of the latest generator call
     genOut |-> None,           \* output of the latest generator call
     groundDocs |-> <<>>,       \* documents of the latest groundedness check
     checkedAnswer |-> None,    \* solution of the latest groundedness check
     groundCalls |-> 0,         \* saturates at MaxGen
     relCalls |-> 0,            \* saturates at MaxGen
     escalations |-> 0,         \* "Question not addressed" routings
     failure |-> None,          \* collaborator whose exception ended the run
     invalidated |-> FALSE]     \* a lookup has failed and no retriever has
                                \* been supplied since (kept across runs)

\* a caller that has not entered process_question
ThreadInit ==
    [at |-> IDLE,               \* line about to be executed
     caller |-> None,           \* function that called get_current_retriever
     current_retriever |-> None, \* local of that call and of its caller
     late |-> FALSE,            \* the call began after an invalidation began
     reinstalled |-> FALSE,     \* such a call wrote self.retriever
     cleared |-> FALSE,         \* this caller has executed self.retriever = None
     documents |-> <<>>,        \* "documents" returned by _retrieve
     docs_obj |-> <<>>,         \* identity of the list object holding them
                                \* (<<>>: no list yet)
     online_search |-> FALSE,   \* "online_search" returned by _retrieve
     outcome |-> "pending"]     \* "none" | "failed" | "ok"

Init ==
    /\ threads = [t \in Threads |-> ThreadInit]
    /\ retriever = None
    /\ ss_retriever = None
    /\ processed_file = None
    /\ user_file = None
    /\ graph_instance = FALSE
    /\ pc = IDLE
    /\ keys = {}
    /\ question = None
    /\ documents = <<>>
    /\ online_search = FALSE
    /\ search_method = None
    /\ solution = None
    /\ document_evaluations = <<>>
    /\ doc_relevance_score = None
    /\ question_relevance_score = None
    /\ hist = HistInit(None, None)

\* no graph.invoke is in progress
BetweenRuns == pc \in {IDLE, END, ERROR}

\* ------------------------------------------------------------ upload path
\* app.py main(): user_file = render_upload_section(...);
\* retriever = document_processor.process_file(user_file);
\* if retriever: st.session_state.retriever = retriever.
\* ok: the file type is supported and the processing pipeline raises nothing
UploadFile(f, ok) ==
    /\ BetweenRuns
    /\ user_file' = f
    /\ IF processed_file = f
         THEN UNCHANGED <<processed_file, ss_retriever, hist>>
         ELSE IF ok
           THEN /\ processed_file' = f
                /\ ss_retriever' = f
                /\ hist' = [hist EXCEPT !.invalidated = FALSE]
           ELSE UNCHANGED <<processed_file, ss_retriever, hist>>
    /\ UNCHANGED <<retriever, graph_instance, pc, chanVars, checkVars, threads>>

\* --------------------------------------------------- retriever bookkeeping
\* RAGWorkflow.get_current_retriever: the value returned
CurrentRetriever(r, ss) == IF r # None THEN r ELSE ss
\* mutant: the session retriever is installed even when the instance has one
RetrieverAfterGet_PreferSession(r, ss) == IF ss # None THEN ss ELSE r

\* RAGWorkflow.get_current_retriever: self.retriever afterwards
RetrieverAfterGet(r, ss) == IF r # None THEN r ELSE IF ss # None THEN ss ELSE r

\* RAGWorkflow.process_question up to graph.invoke(input={"question": q})
ProcessQuestion(q) ==
    /\ BetweenRuns
    /\ retriever' = CurrentRetriever(retriever, ss_retriever)
    /\ graph_instance' = TRUE
    /\ pc' = RETRIEVE
    /\ keys' = {"question"}
    /\ question' = q
    /\ documents' = <<>>
    /\ online_search' = FALSE
    /\ search_method' = None
    /\ solution' = None
    /\ document_evaluations' = <<>>
    /\ doc_relevance_score' = None
    /\ question_relevance_score' = None
    /\ hist' = [HistInit(q, CurrentRetriever(retriever, ss_retriever))
                   EXCEPT !.invalidated = hist.invalidated]
    /\ UNCHANGED <<ss_retriever, processed_file, user_file, threads>>

\* ------------------------------------------------------------------ nodes
\* mutant: only the reference on the workflow instance is discarded
ClearRetriever_InstanceOnly(r, ss) == [retriever |-> None, session |-> ss]

\* the except block of RAGWorkflow._retrieve: self.retriever = None and
\* st.session_state.retriever = None
ClearRetriever(r, ss) == [retriever |-> None, session |-> None]

\* mutant: the lookup exception is not caught
Absorb_Propagate(collaborator) == ERROR

\* where the run goes when current_retriever.invoke raises: the except
\* Exception block of _retrieve returns normally, so the edge to the grade
\* node is taken
Absorb(collaborator) == GRADE

\* RAGWorkflow._retrieve
Retrieve ==
    /\ pc = RETRIEVE
    /\ LET current == CurrentRetriever(retriever, ss_retriever) IN
       IF current = None
         THEN /\ documents' = <<>>
              /\ online_search' = TRUE
              /\ keys' = keys \cup {"documents", "question", "online_search"}
              /\ retriever' = RetrieverAfterGet(retriever, ss_retriever)
              /\ hist' = [hist EXCEPT !.retrieveOutcome = "none"]
              /\ pc' = GRADE
              /\ UNCHANGED ss_retriever
         ELSE \/ \E n \in 0..MaxDocs :
                   /\ documents' = RetrieverResult(n)
                   /\ keys' = keys \cup {"documents", "question"}
                   /\ retriever' = RetrieverAfterGet(retriever, ss_retriever)
                   /\ hist' = [hist EXCEPT
                                  !.retrieveOutcome = "ok",
                                  !.retrieved = RetrieverResult(n),
                                  !.retrieverCalls = @ + 1,
                                  !.asked["Retriever"] = @ \cup {question}]
                   /\ pc' = GRADE
                   /\ UNCHANGED <<ss_retriever, online_search>>
              \/ /\ documents' = <<>>
                 /\ online_search' = TRUE
                 /\ keys' = keys \cup {"documents", "question", "online_search"}
                 /\ retriever' = ClearRetriever(retriever, ss_retriever).retriever
                 /\ ss_retriever' = ClearRetriever(retriever, ss_retriever).session
                 /\ hist' = [hist EXCEPT
                                !.retrieveOutcome = "failed",
                                !.retrieverCalls = @ + 1,
                                !.asked["Retriever"] = @ \cup {question},
                                !.invalidated = TRUE]
                 /\ pc' = Absorb("Retriever")
    /\ question' = question
    /\ UNCHANGED <<processed_file, user_file, graph_instance, search_method,
                   solution, document_evaluations, checkVars, threads>>

\* mutant: a WebSearch exception is swallowed and generation goes on
Raise_CaughtWebSearch(collaborator) ==
    IF collaborator = "WebSearch" THEN GENERATE ELSE ERROR

\* mutant: a Generator exception is swallowed and the check goes on
Raise_CaughtGenerator(collaborator) ==
    IF collaborator = "Generator" THEN CHECK ELSE ERROR

\* where the run goes when a collaborator call raises inside _evaluate,
\* _generate_answer, _search_online or _check_hallucinations: none of them
\* has a try block, so the exception leaves graph.invoke and
\* process_question
Raise(collaborator) == ERROR

\* mutant: the flag set by RETRIEVE is not read back
GetOnlineSearch_IgnoreFlag == FALSE

\* state.get("online_search", False)
GetOnlineSearch == IF "online_search" \in keys THEN online_search ELSE FALSE

\* mutant: a rejected passage is dropped without setting the fallback flag
RECURSIVE EvaluateLoop_KeepFlag(_, _, _, _, _)
EvaluateLoop_KeepFlag(docs, scores, i, filtered_docs, flag) ==
    IF i > Len(docs)
      THEN [filtered_docs |-> filtered_docs, online_search |-> flag]
      ELSE IF Lower(scores[i]) = "yes"
             THEN EvaluateLoop_KeepFlag(docs, scores, i + 1,
                                        Append(filtered_docs, docs[i]), flag)
             ELSE EvaluateLoop_KeepFlag(docs, scores, i + 1, filtered_docs,
                                        flag)

\* mutant: a sufficient passage clears the fallback flag
RECURSIVE EvaluateLoop_ResetFlag(_, _, _, _, _)
EvaluateLoop_ResetFlag(docs, scores, i, filtered_docs, flag) ==
    IF i > Len(docs)
      THEN [filtered_docs |-> filtered_docs, online_search |-> flag]
      ELSE IF Lower(scores[i]) = "yes"
             THEN EvaluateLoop_ResetFlag(docs, scores, i + 1,
                                         Append(filtered_docs, docs[i]), FALSE)
             ELSE EvaluateLoop_ResetFlag(docs, scores, i + 1, filtered_docs,
                                         TRUE)

\* the for loop of RAGWorkflow._evaluate from passage i on
RECURSIVE EvaluateLoop(_, _, _, _, _)
EvaluateLoop(docs, scores, i, filtered_docs, flag) ==
    IF i > Len(docs)
      THEN [filtered_docs |-> filtered_docs, online_search |-> flag]
      ELSE IF Lower(scores[i]) = "yes"
             THEN EvaluateLoop(docs, scores, i + 1,
                               Append(filtered_docs, docs[i]), flag)
             ELSE EvaluateLoop(docs, scores, i + 1, filtered_docs, TRUE)

\* mutant: the search method ignores the fallback flag
SearchMethodOf_AlwaysDocuments(flag) == "documents"

\* mutant: the search method is "online" whatever the flag
SearchMethodOf_AlwaysOnline(flag) == "online"

\* search_method = "online" if online_search else "documents"
SearchMethodOf(flag) == IF flag THEN "online" ELSE "documents"

\* mutant: the router after GRADE always falls back to web search
AnyDocIrrelevant_AlwaysSearch(flag) == SEARCH

\* mutant: the router also looks at the retriever in the session state
AnyDocIrrelevant_BySession(flag) ==
    IF flag \/ ss_retriever # retriever THEN SEARCH ELSE GENERATE

\* RAGWorkflow._any_doc_irrelevant
AnyDocIrrelevant(flag) == IF flag THEN SEARCH ELSE GENERATE

\* mutant: a verdict is recorded only for a passage that is kept
DocumentEvaluations_KeptOnly(docs, scores) ==
    SelectSeq(scores, LAMBDA s : Lower(s) = "yes")

\* document_evaluations of RAGWorkflow._evaluate: the grader's response is
\* appended once for every passage of the loop, in the order of the passages
DocumentEvaluations(docs, scores) == [i \in 1..Len(docs) |-> scores[i]]

\* RAGWorkflow._evaluate followed by the router _any_doc_irrelevant
Evaluate ==
    /\ pc = GRADE
    /\ \/ \E scores \in [1..Len(documents) -> Scores] :
            LET r == EvaluateLoop(documents, scores, 1, <<>>, GetOnlineSearch) IN
            /\ documents' = r.filtered_docs
            /\ online_search' = r.online_search
            /\ search_method' = SearchMethodOf(r.online_search)
            /\ document_evaluations' = DocumentEvaluations(documents, scores)
            /\ keys' = keys \cup {"documents", "question", "online_search",
                                  "search_method", "document_evaluations"}
            /\ hist' = [hist EXCEPT
                           !.graderCalls = Len(documents),
                           !.graded = documents,
                           !.asked["Grader"] =
                               IF documents = <<>> THEN @ ELSE @ \cup {question}]
            /\ pc' = AnyDocIrrelevant(r.online_search)
       \/ \E k \in 1..Len(documents) :
            \* evaluate_docs.invoke raises on the k-th passage
            /\ hist' = [hist EXCEPT !.graderCalls = k,
                                    !.graded = SubSeq(documents, 1, k),
                                    !.asked["Grader"] = @ \cup {question},
                                    !.failure = "Grader"]
            /\ pc' = Raise("Grader")
            /\ UNCHANGED <<keys, documents, online_search, search_method,
                           document_evaluations>>
    /\ question' = question
    /\ UNCHANGED <<procVars, solution, checkVars, threads>>

\* mutant: the generator is given the first passage only
GeneratorContext_FirstOnly(docs) == SubSeq(docs, 1, Min(1, Len(docs)))

\* the "context" of generate_chain.invoke in _generate_answer
GeneratorContext(docs) == docs

\* mutant: every generation shortens the context by its last passage
ReturnedDocuments_DropLast(docs) ==
    IF docs = <<>> THEN docs ELSE SubSeq(docs, 1, Len(docs) - 1)

\* the "documents" entry of the dict _generate_answer returns
ReturnedDocuments(docs) == docs

\* RAGWorkflow._generate_answer
GenerateAnswer ==
    /\ pc = GENERATE
    /\ \/ \E a \in Answers :
            /\ solution' = a
            /\ documents' = ReturnedDocuments(documents)
            /\ keys' = keys \cup {"documents", "question", "solution"}
            /\ hist' = [hist EXCEPT !.genCalls = Min(@ + 1, MaxGen),
                                    !.genDocs = GeneratorContext(documents),
                                    !.genOut = a,
                                    !.asked["Generator"] = @ \cup {question},
                                    !.webResponse = <<>>,
                                    !.webContent = <<>>]
            /\ pc' = CHECK
       \/ /\ hist' = [hist EXCEPT !.genCalls = Min(@ + 1, MaxGen),
                                  !.genDocs = GeneratorContext(documents),
                                  !.failure = "Generator",
                                  !.asked["Generator"] = @ \cup {question},
                                  !.webResponse = <<>>,
                                  !.webContent = <<>>]
          /\ pc' = Raise("Generator")
          /\ UNCHANGED <<keys, solution, documents>>
    /\ question' = question
    /\ UNCHANGED <<procVars, online_search, search_method,
                   document_evaluations, checkVars, threads>>

\* mutant: the web passage is put in front of the kept passages
AddResults_Prepend(docs, results) == <<results>> \o docs

\* mutant: the web passage replaces the kept passages
AddResults_Replace(docs, results) == <<results>>

\* mutant: the new web passage takes the place of the earlier web passages
AddResults_ReplaceWeb(docs, results) ==
    Append(SelectSeq(docs, LAMBDA d : d.origin = "local"), results)

\* the documents list after RAGWorkflow._search_online has added the result
AddResults(docs, results) ==
    IF "documents" \in keys THEN Append(docs, results) ELSE <<results>>

\* mutant: every snippet of the response becomes a passage of its own
DocumentsAfterSearch_PerSnippet(docs, response, k) ==
    docs \o [i \in 1..Len(response) |-> WebDoc(k)]

\* the documents list RAGWorkflow._search_online returns: the whole
\* response goes into one Document, which is added to the list
DocumentsAfterSearch(docs, response, k) == AddResults(docs, WebDoc(k))

\* mutant: an escalation searches for the rejected answer
SearchQuery_FromAnswer(q) == IF solution # None THEN solution ELSE q

\* the "query" of tavily_client.invoke in _search_online
SearchQuery(q) == q

\* RAGWorkflow._search_online
SearchOnline ==
    /\ pc = SEARCH
    /\ \/ \E n \in 0..TAVILY_SEARCH_RESULTS :
            /\ documents' = DocumentsAfterSearch(documents, TavilyResponse(n),
                                                 hist.webCalls + 1)
            /\ search_method' = "online"
            /\ keys' = keys \cup {"documents", "question", "search_method"}
            /\ hist' = [hist EXCEPT
                           !.webCalls = @ + 1,
                           !.webQuery = SearchQuery(question),
                           !.asked["WebSearch"] = @ \cup {SearchQuery(question)},
                           !.webResponse = TavilyResponse(n),
                           !.webContent = JoinContents(TavilyResponse(n))]
            /\ pc' = GENERATE
       \/ /\ hist' = [hist EXCEPT
                         !.webCalls = @ + 1,
                         !.webQuery = SearchQuery(question),
                         !.asked["WebSearch"] = @ \cup {SearchQuery(question)},
                         !.failure = "WebSearch"]
          /\ pc' = Raise("WebSearch")
          /\ UNCHANGED <<keys, documents, search_method>>
    /\ question' = question
    /\ UNCHANGED <<procVars, online_search, solution, document_evaluations,
                   checkVars, threads>>

\* ---------------------------------------------------------------- router
\* mutant: a grounded answer is accepted without looking at its relevance
HallucinationRoute_SkipRelevance(grounded, addressed) ==
    IF grounded THEN "Answers Question" ELSE "Hallucinations detected"

\* the label RAGWorkflow._check_hallucinations returns
HallucinationRoute(grounded, addressed) ==
    IF grounded
      THEN IF addressed THEN "Answers Question" ELSE "Question not addressed"
      ELSE "Hallucinations detected"

\* mutant: a hallucination is answered by a web search
RouteTarget_RetryViaSearch(label) ==
    CASE label = "Hallucinations detected" -> SEARCH
      [] label = "Answers Question" -> END
      [] label = "Question not addressed" -> SEARCH

\* mutant: an answer that misses the question is regenerated directly
RouteTarget_EscalateToGenerate(label) ==
    CASE label = "Hallucinations detected" -> GENERATE
      [] label = "Answers Question" -> END
      [] label = "Question not addressed" -> GENERATE

\* mutant: an answer that misses the question restarts the retrieval
RouteTarget_RestartRetrieve(label) ==
    CASE label = "Hallucinations detected" -> GENERATE
      [] label = "Answers Question" -> END
      [] label = "Question not addressed" -> RETRIEVE

\* mutant: an accepted answer is generated again instead of being returned
RouteTarget_AcceptedRetries(label) ==
    CASE label = "Hallucinations detected" -> GENERATE
      [] label = "Answers Question" -> GENERATE
      [] label = "Question not addressed" -> SEARCH

\* the path map of add_conditional_edges("Generate Answer", ...)
RouteTarget(label) ==
    CASE label = "Hallucinations detected" -> GENERATE
      [] label = "Answers Question" -> END
      [] label = "Question not addressed" -> SEARCH

BoolStr(b) == IF b THEN "True" ELSE "False"

\* RAGWorkflow._check_hallucinations, run by the graph after "Generate
\* Answer".  Its assignments state["document_relevance_score"] = ... and
\* state["question_relevance_score"] = ... go to the dict it was called
\* with; a router returns only a label, so no channel is written and keys
\* is unchanged.
CheckHallucinations ==
    /\ pc = CHECK
    /\ \/ \* document_relevance.invoke raises
          /\ hist' = [hist EXCEPT !.groundCalls = Min(@ + 1, MaxGen),
                                  !.groundDocs = documents,
                                  !.checkedAnswer = solution,
                                  !.failure = "GroundednessChecker"]
          /\ pc' = Raise("GroundednessChecker")
          /\ UNCHANGED checkVars
       \/ \* binary_score is false
          /\ doc_relevance_score' = BoolStr(FALSE)
          /\ UNCHANGED question_relevance_score
          /\ hist' = [hist EXCEPT !.groundCalls = Min(@ + 1, MaxGen),
                                  !.groundDocs = documents,
                                  !.checkedAnswer = solution]
          /\ pc' = RouteTarget(HallucinationRoute(FALSE, FALSE))
       \/ \* binary_score is true, question_relevance.invoke raises
          /\ hist' = [hist EXCEPT !.groundCalls = Min(@ + 1, MaxGen),
                                  !.groundDocs = documents,
                                  !.checkedAnswer = solution,
                                  !.relCalls = Min(@ + 1, MaxGen),
                                  !.asked["RelevanceChecker"] =
                                      @ \cup {question},
                                  !.failure = "RelevanceChecker"]
          /\ pc' = Raise("RelevanceChecker")
          /\ UNCHANGED checkVars
       \/ \E addressed \in BOOLEAN :
            \* a run is followed through at most MaxWeb web searches
            /\ addressed \/ hist.webCalls < MaxWeb
            /\ doc_relevance_score' = BoolStr(TRUE)
            /\ question_relevance_score' = BoolStr(addressed)
            /\ hist' = [hist EXCEPT !.groundCalls = Min(@ + 1, MaxGen),
                                    !.groundDocs = documents,
                                    !.checkedAnswer = solution,
                                    !.relCalls = Min(@ + 1, MaxGen),
                                    !.asked["RelevanceChecker"] =
                                        @ \cup {question},
                                    !.escalations =
                                        IF addressed THEN @ ELSE @ + 1]
            /\ pc' = RouteTarget(HallucinationRoute(TRUE, addressed))
    /\ UNCHANGED <<procVars, chanVars, threads>>

\* the steps of one graph.invoke
RunStep ==
    \/ Retrieve
    \/ Evaluate
    \/ GenerateAnswer
    \/ SearchOnline
    \/ CheckHallucinations

Next ==
    \/ \E f \in Files, ok \in BOOLEAN : UploadFile(f, ok)
    \/ \E q \in Questions : ProcessQuestion(q)
    \/ RunStep

Spec == Init /\ [][Next]_vars

\* the graph executor always runs the next step of a started run
FairSpec == Spec /\ WF_vars(RunStep)

\* Questions asked one after the other in a session whose upload is over:
\* either no file has been processed or file "A" has been, and its
\* retriever is in the session state.
RunInit ==
    /\ threads = [t \in Threads |-> ThreadInit]
    /\ retriever = None
    /\ ss_retriever \in {None, "A"}
    /\ processed_file = ss_retriever
    /\ user_file = ss_retriever
    /\ graph_instance = FALSE
    /\ pc = IDLE
    /\ keys = {}
    /\ question = None
    /\ documents = <<>>
    /\ online_search = FALSE
    /\ search_method = None
    /\ solution = None
    /\ document_evaluations = <<>>
    /\ doc_relevance_score = None
    /\ question_relevance_score = None
    /\ hist = HistInit(None, None)

RunNext ==
    \/ \E q \in Questions : ProcessQuestion(q)
    \/ RunStep

\* the graph executor always runs the next step of a started run
FairRunSpec == RunInit /\ [][RunNext]_vars /\ WF_vars(RunStep)

\* ------------------------------------------------- concurrent retrieval
\* Several callers run process_question on the same RAGWorkflow instance and
\* session state.  Each step below is one read or write of self.retriever
\* or st.session_state.retriever; nothing in the code orders the steps of
\* different callers, so they interleave freely.  The graph state of a
\* caller is its own (graph.invoke builds it from the input dict).
seqVars == <<processed_file, user_file, graph_instance, pc, chanVars,
            checkVars, hist>>

\* some caller has executed self.retriever = None of the except block
InvalidationBegun == \E u \in Threads : threads[u].cleared

\* mutant: the handler catches one exception type only
Caught_OnlyValueError(e) == e = "ValueError"

\* except Exception as e, in _retrieve
Caught(e) == e \in LookupErrors

\* the line that follows the return of get_current_retriever
AfterGet(caller) ==
    IF caller = "process_question" THEN "set_retriever" ELSE "lookup"

\* mutant: the passage lists are one object shared by all callers
NewList_Shared(t) == <<0>>

\* identity of a list object created by caller t: the list displays [] of
\* _retrieve and _evaluate and the list returned by the retriever lookup are
\* evaluated inside the call, so the object belongs to that call alone
NewList(t) == <<t>>

\* process_question is entered: current_retriever = self.get_current_retriever()
T_Start(t) ==
    /\ threads[t].at \in {IDLE, SEARCH, GENERATE, ERROR}
    /\ threads' = [threads EXCEPT ![t] =
                      [ThreadInit EXCEPT !.at = "gcr_test",
                                         !.caller = "process_question",
                                         !.late = InvalidationBegun,
                                         !.cleared = threads[t].cleared]]
    /\ UNCHANGED <<retriever, ss_retriever, seqVars>>

\* get_current_retriever: if self.retriever is not None
T_TestSelf(t) ==
    /\ threads[t].at = "gcr_test"
    /\ threads' = [threads EXCEPT ![t].at =
                      IF retriever # None THEN "gcr_return_self"
                                          ELSE "gcr_session"]
    /\ UNCHANGED <<retriever, ss_retriever, seqVars>>

\* get_current_retriever: return self.retriever
T_ReturnSelf(t) ==
    /\ threads[t].at = "gcr_return_self"
    /\ threads' = [threads EXCEPT ![t].current_retriever = retriever,
                                  ![t].at = AfterGet(threads[t].caller)]
    /\ UNCHANGED <<retriever, ss_retriever, seqVars>>

\* get_current_retriever: session_retriever = st.session_state.get('retriever')
T_ReadSession(t) ==
    /\ threads[t].at = "gcr_session"
    /\ threads' = [threads EXCEPT ![t].current_retriever = ss_retriever,
                                  ![t].at =
                                      IF ss_retriever # None
                                        THEN "gcr_install"
                                        ELSE AfterGet(threads[t].caller)]
    /\ UNCHANGED <<retriever, ss_retriever, seqVars>>

\* get_current_retriever: self.retriever = session_retriever; return it
T_Install(t) ==
    /\ threads[t].at = "gcr_install"
    /\ retriever' = threads[t].current_retriever
    /\ threads' = [threads EXCEPT ![t].reinstalled = threads[t].late,
                                  ![t].at = AfterGet(threads[t].caller)]
    /\ UNCHANGED <<ss_retriever, seqVars>>

\* process_question: self.set_retriever(current_retriever), then graph.invoke
\* enters _retrieve, which calls get_current_retriever again
T_SetRetriever(t) ==
    /\ threads[t].at = "set_retriever"
    /\ retriever' = threads[t].current_retriever
    /\ threads' = [threads EXCEPT ![t].at = "gcr_test",
                                  ![t].caller = "_retrieve",
                                  ![t].current_retriever = None,
                                  ![t].late = InvalidationBegun]
    /\ UNCHANGED <<ss_retriever, seqVars>>

\* _retrieve: the None test and current_retriever.invoke(question)
T_Lookup(t) ==
    /\ threads[t].at = "lookup"
    /\ IF threads[t].current_retriever = None
         THEN threads' = [threads EXCEPT ![t].outcome = "none",
                                         ![t].documents = <<>>,
                                         ![t].docs_obj = NewList(t),
                                         ![t].online_search = TRUE,
                                         ![t].at = GRADE]
         ELSE \/ \E n \in 0..1 :
                   threads' = [threads EXCEPT ![t].outcome = "ok",
                                              ![t].documents = RetrieverResult(n),
                                              ![t].docs_obj = NewList(t),
                                              ![t].at = GRADE]
              \/ \E e \in LookupErrors :
                   threads' = [threads EXCEPT ![t].at =
                                   IF Caught(e) THEN "clear_self" ELSE "crashed"]
    /\ UNCHANGED <<retriever, ss_retriever, seqVars>>

\* _retrieve, except block: self.retriever = None
T_ClearSelf(t) ==
    /\ threads[t].at = "clear_self"
    /\ retriever' = ClearRetriever(retriever, ss_retriever).retriever
    /\ threads' = [threads EXCEPT ![t].cleared = TRUE,
                                  ![t].at = "clear_session"]
    /\ UNCHANGED <<ss_retriever, seqVars>>

\* _retrieve, except block: st.session_state.retriever = None and the return
T_ClearSession(t) ==
    /\ threads[t].at = "clear_session"
    /\ ss_retriever' = ClearRetriever(retriever, ss_retriever).session
    /\ threads' = [threads EXCEPT ![t].outcome = "failed",
                                  ![t].documents = <<>>,
                                  ![t].docs_obj = NewList(t),
                                  ![t].online_search = TRUE,
                                  ![t].at = Absorb("Retriever")]
    /\ UNCHANGED <<retriever, seqVars>>

\* _evaluate and _any_doc_irrelevant on the caller's own state
T_Grade(t) ==
    /\ threads[t].at = GRADE
    /\ \E scores \in [1..Len(threads[t].documents) -> Scores] :
          LET r == EvaluateLoop(threads[t].documents, scores, 1, <<>>,
                                threads[t].online_search) IN
          threads' = [threads EXCEPT ![t].documents = r.filtered_docs,
                                     ![t].docs_obj = NewList(t),
                                     ![t].online_search = r.online_search,
                                     ![t].at = AnyDocIrrelevant(r.online_search)]
    /\ UNCHANGED <<retriever, ss_retriever, seqVars>>

ConcNext ==
    \E t \in Threads :
        \/ T_Start(t)
        \/ T_TestSelf(t)
        \/ T_ReturnSelf(t)
        \/ T_ReadSession(t)
        \/ T_Install(t)
        \/ T_SetRetriever(t)
        \/ T_Lookup(t)
        \/ T_ClearSelf(t)
        \/ T_ClearSession(t)
        \/ T_Grade(t)

\* a file has been processed and its retriever is in the session state; the
\* workflow instance may already hold it from an earlier question
ConcInit ==
    /\ threads = [t \in Threads |-> ThreadInit]
    /\ retriever \in {None, "A"}
    /\ ss_retriever = "A"
    /\ processed_file = "A"
    /\ user_file = "A"
    /\ graph_instance \in BOOLEAN
    /\ pc = IDLE
    /\ keys = {}
    /\ question = None
    /\ documents = <<>>
    /\ online_search = FALSE
    /\ search_method = None
    /\ solution = None
    /\ document_evaluations = <<>>
    /\ doc_relevance_score = None
    /\ question_relevance_score = None
    /\ hist = HistInit(None, None)

ConcSpec == ConcInit /\ [][ConcNext]_vars

\* _search_online on the caller's own state: documents.append(results)
\* changes the list object in place, so every state that holds this object
\* sees the new passage
T_SearchOnline(t) ==
    /\ threads[t].at = SEARCH
    /\ \/ threads' =
            [u \in Threads |->
                IF u = t
                  THEN [threads[u] EXCEPT
                           !.documents = Append(@, WebDoc(1)),
                           !.at = GENERATE]
                  ELSE IF threads[u].docs_obj = threads[t].docs_obj
                         THEN [threads[u] EXCEPT
                                  !.documents = Append(@, WebDoc(1))]
                         ELSE threads[u]]
       \/ \* tavily_client.invoke raises
          threads' = [threads EXCEPT ![t].at = Raise("WebSearch")]
    /\ UNCHANGED <<retriever, ss_retriever, seqVars>>

\* the concurrent runs followed through their web search
ConcRunNext ==
    \/ ConcNext
    \/ \E t \in Threads : T_SearchOnline(t)

\* the workflow instance has answered a question about the file before: it
\* holds the compiled graph and the retriever
ConcRunInit == ConcInit /\ retriever = "A" /\ graph_instance

ConcRunSpec == ConcRunInit /\ [][ConcRunNext]_vars

\* ------------------------------------------------------ claim vocabulary
\* the grade round of the current run has finished
Graded == "document_evaluations" \in keys
\* the retriever lookup of the current run succeeded with at least one passage
RetrievedSome == hist.retrieveOutcome = "ok" /\ Len(hist.retrieved) >= 1
\* verdict i of the current grade round is "sufficient"
Sufficient(i) == Lower(document_evaluations[i]) = "yes"
SufficientSet == {i \in 1..Len(document_evaluations) : Sufficient(i)}
AllSufficient ==
    Graded /\ RetrievedSome /\ SufficientSet = 1..Len(document_evaluations)
AllInsufficient == Graded /\ RetrievedSome /\ SufficientSet = {}
MixedVerdicts ==
    /\ Graded /\ RetrievedSome
    /\ SufficientSet # {}
    /\ SufficientSet # 1..Len(document_evaluations)
\* the first Generator invocation of the run is about to happen
FirstGeneration == pc = GENERATE /\ hist.genCalls = 0
\* a graph.invoke has been started and has not been replaced by a new one
InRun == pc # IDLE

\* ------------------------------------------------------------------- C1
\* C1: every started run terminates (within a retry cap) with a DONE or a
\* QualityUnresolved result; it never loops unboundedly through GENERATE
\* and CHECK.  The graph has END and an escaping exception as its only
\* ways out, so termination is reaching one of them.
C1_RunTerminates == (pc = RETRIEVE) ~> (pc \in {END, ERROR})

\* ------------------------------------------------------------------- C2
\* C2 as stated: when all retrieved passages are graded sufficient,
\* WebSearch is never invoked in the run and the returned searchMethod is
\* "documents".
C2_NeverWebWhenSufficient ==
    (InRun /\ AllSufficient) =>
        /\ hist.webCalls = 0
        /\ (pc = END => search_method = "documents")

\* C2 amended: when all retrieved passages are graded sufficient, WebSearch
\* is not invoked before the first Generator invocation and searchMethod is
\* "documents" for it; afterwards WebSearch is invoked only by escalation,
\* once per escalation, and the returned searchMethod is "documents"
\* exactly when no escalation happened.
C2_NoFallbackWhenSufficient ==
    (InRun /\ AllSufficient) =>
        /\ (hist.genCalls = 0 => hist.webCalls = 0)
        /\ (FirstGeneration => search_method = "documents")
        /\ hist.webCalls = (IF pc = SEARCH THEN hist.escalations - 1
                                           ELSE hist.escalations)
        /\ (pc = END => (search_method = "documents" <=> hist.escalations = 0))
        /\ (pc = END /\ hist.escalations > 0 => search_method = "online")

\* a run with all passages sufficient has returned without any web search
C2_Witness ==
    /\ pc = END /\ AllSufficient
    /\ hist.webCalls = 0 /\ search_method = "documents"

\* ------------------------------------------------------------------- C3
\* C3: whenever RETRIEVE yields zero passages (no retriever, failed lookup
\* or a lookup that returned an empty list), WebSearch is invoked exactly
\* once with the original question before the first GENERATE and the first
\* Generator invocation receives exactly the one web passage.
C3_EmptyRetrieveFallsBack ==
    (FirstGeneration /\ hist.retrieveOutcome # "pending"
                     /\ Len(hist.retrieved) = 0) =>
        /\ hist.webCalls = 1
        /\ hist.webQuery = hist.origQuestion
        /\ documents = <<WebDoc(1)>>

\* ------------------------------------------------------------------- C4
\* C4: in a run started with no retriever on the workflow instance and none
\* in the session state, the Grader is never invoked (nor is a retriever
\* looked up) and the returned state has searchMethod = "online".
C4_NoRetrieverGoesOnline ==
    (InRun /\ hist.startRetriever = None) =>
        /\ hist.graderCalls = 0
        /\ hist.retrieverCalls = 0
        /\ (pc \in {SEARCH, GENERATE, CHECK, END} => search_method = "online")
        /\ (pc \in {GENERATE, CHECK, END} => hist.webCalls >= 1)

\* a run started without any retriever has returned its state
C4_Witness == pc = END /\ hist.startRetriever = None

\* ------------------------------------------------------------------- C5
\* C5: when the retriever returns N >= 1 passages and every one is graded
\* insufficient, WebSearch has been invoked exactly once when the first
\* Generator invocation starts, and searchMethod is "online" then.
C5_AllInsufficientFallsBack ==
    /\ (FirstGeneration /\ AllInsufficient) =>
           /\ hist.webCalls = 1
           /\ search_method = "online"
           /\ documents = <<WebDoc(1)>>
    /\ (InRun /\ AllInsufficient /\ hist.webCalls = 0) => hist.genCalls = 0

\* the first generation of a run whose passages were all rejected
C5_Witness == FirstGeneration /\ AllInsufficient /\ Len(hist.retrieved) >= 2

\* ------------------------------------------------------------------- C6
\* C6: a CHECK whose groundedness verdict is supported=false does not
\* invoke the Relevance Checker, routes to the Generator without a
\* WebSearch and without touching the passages, and that Generator
\* invocation receives the same evidence (same passages, same order) as the
\* one before it.
C6_HallucinationRetry ==
    [][ /\ (pc = CHECK /\ pc' # ERROR /\ doc_relevance_score' = "False") =>
              /\ pc' = GENERATE
              /\ hist'.relCalls = hist.relCalls
              /\ question_relevance_score' = question_relevance_score
              /\ hist'.webCalls = hist.webCalls
              /\ documents' = documents
        /\ (pc = GENERATE /\ hist.genCalls > 0
                          /\ doc_relevance_score = "False") =>
              /\ hist'.genDocs = hist.genDocs
              /\ hist.groundDocs = hist.genDocs ]_vars

\* attempt k+1 has been generated after attempt k was found ungrounded
C6_Witness ==
    /\ pc = CHECK /\ hist.genCalls >= 2
    /\ doc_relevance_score = "False"
    /\ Len(hist.genDocs) >= 2

\* ------------------------------------------------------------------- C7
\* C7: a CHECK with supported=true and addressesQuestion=false routes to
\* WebSearch, a WebSearch that returns is followed by the Generator, and
\* that Generator invocation receives an evidence list that differs from
\* the previous one (one more passage); the Generator is not re-invoked
\* directly.
C7_EscalationOnIrrelevance ==
    [][ /\ (pc = CHECK /\ pc' # ERROR /\ doc_relevance_score' = "True"
                       /\ question_relevance_score' = "False") =>
              pc' = SEARCH
        /\ (pc = SEARCH) =>
              \/ pc' = GENERATE /\ Len(documents') = Len(documents) + 1
              \/ pc' = ERROR /\ hist'.failure = "WebSearch"
        /\ (pc = GENERATE /\ hist.genCalls > 0
                          /\ doc_relevance_score = "True") =>
              /\ question_relevance_score = "False"
              /\ hist'.genDocs # hist.genDocs
              /\ Len(hist'.genDocs) = Len(hist.genDocs) + 1 ]_vars

\* a fresh answer has been generated after an escalation
C7_Witness ==
    /\ pc = CHECK /\ hist.escalations >= 1
    /\ doc_relevance_score = "True" /\ question_relevance_score = "False"
    /\ hist.webCalls >= 1

\* ------------------------------------------------------------------- C8
\* C8: END is entered only from a CHECK in which groundedness returned
\* supported=true and relevance returned addressesQuestion=true for the
\* current answer, and the returned solution is the output of the most
\* recent Generator invocation, the one that was checked.
C8_DoneOnlyAfterBothChecks ==
    [][ (pc' = END /\ pc # END) =>
            /\ pc = CHECK
            /\ doc_relevance_score' = "True"
            /\ question_relevance_score' = "True"
            /\ hist'.checkedAnswer = solution'
            /\ solution' = hist'.genOut
            /\ solution' \in Answers
            /\ "solution" \in keys' ]_vars

\* a run has returned an answer after at least one rejected attempt
C8_Witness == pc = END /\ hist.genCalls >= 2 /\ solution \in Answers

\* ------------------------------------------------------------------- C9
\* C9: with at least one passage graded insufficient and at least one
\* sufficient, the fallback flag is set, WebSearch is invoked before
\* generation, and the first Generator invocation receives exactly the
\* sufficient passages in their retrieval order followed by one web passage.
C9_MixedKeepsSufficient ==
    /\ (InRun /\ MixedVerdicts) => online_search
    /\ (InRun /\ MixedVerdicts /\ hist.webCalls = 0) => hist.genCalls = 0
    /\ (FirstGeneration /\ MixedVerdicts) =>
           /\ hist.webCalls = 1
           /\ Len(documents) = Cardinality(SufficientSet) + 1
           /\ documents[Len(documents)] = WebDoc(1)
           /\ \A i \in SufficientSet :
                 documents[Cardinality({m \in SufficientSet : m <= i})]
                     = hist.retrieved[i]

\* two sufficient passages around or beside a rejected one reach generation
C9_Witness ==
    /\ FirstGeneration /\ MixedVerdicts
    /\ Cardinality(SufficientSet) >= 2

\* ------------------------------------------------------------------ C10
\* C10: the state returned by a successful run contains the answer, the
\* search method, the per-passage evidence verdicts and both the
\* groundedness verdict and the relevance verdict computed for the
\* returned answer.
C10_ReturnedStateHasVerdicts ==
    pc = END =>
        {"solution", "search_method", "document_evaluations",
         "document_relevance_score", "question_relevance_score"} \subseteq keys

\* ------------------------------------------------------------------ C11
\* C11: a WebSearch call that fails at a SEARCH_ONLINE step (initial
\* fallback or escalation) ends the run with the exception propagated to
\* the caller of process_question: no channel is written, no Generator
\* invocation or further fallback follows, and no state is returned; the
\* only thing that follows is a new call of process_question.
C11_WebSearchFailureIsFatal ==
    [][ /\ (hist'.failure = "WebSearch" /\ hist.failure = None) =>
              /\ pc = SEARCH /\ pc' = ERROR
              /\ chanVars' = chanVars
              /\ hist'.genCalls = hist.genCalls
        /\ (pc = ERROR /\ hist.failure = "WebSearch") =>
              \/ /\ pc' = ERROR /\ chanVars' = chanVars
                 /\ [hist' EXCEPT !.invalidated = FALSE]
                      = [hist EXCEPT !.invalidated = FALSE]
              \/ pc' = RETRIEVE /\ hist'.failure = None
                                /\ hist'.webCalls = 0 ]_vars

\* an escalation search has failed and the run has ended in the error
C11_Witness ==
    pc = ERROR /\ hist.failure = "WebSearch" /\ hist.escalations >= 1

\* ------------------------------------------------------------------ C12
\* the collaborators called in GRADE, GENERATE and CHECK
CapabilityFailures ==
    {"Grader", "Generator", "GroundednessChecker", "RelevanceChecker"}

\* C12: a failure of the Grader, the Generator, the Groundedness Checker or
\* the Relevance Checker is not caught: the run is in the error state from
\* then on, the step in which it happened writes no channel, no later step
\* of the run executes and END (a returned state) is not reached.
C12_CapabilityFailureIsFatal ==
    /\ [](hist.failure \in CapabilityFailures => pc = ERROR)
    /\ [][ /\ (hist'.failure \in CapabilityFailures /\ hist.failure = None) =>
                 /\ pc \in {GRADE, GENERATE, CHECK}
                 /\ chanVars' = chanVars
                 /\ checkVars' = checkVars
           /\ (pc = ERROR /\ hist.failure \in CapabilityFailures) =>
                 \/ /\ pc' = ERROR /\ chanVars' = chanVars
                    /\ [hist' EXCEPT !.invalidated = FALSE]
                         = [hist EXCEPT !.invalidated = FALSE]
                 \/ pc' = RETRIEVE /\ hist'.failure = None
                                   /\ keys' = {"question"} ]_vars

\* the Generator has failed on a retry, after a first answer was stored
C12_Witness ==
    /\ pc = ERROR /\ hist.failure = "Generator"
    /\ hist.genCalls >= 2 /\ solution \in Answers

\* ------------------------------------------------------------------ C13
\* C13: a missing retriever or a retriever that raises never fails the run:
\* RETRIEVE completes with no passages and the fallback flag set, GRADE
\* follows, then SEARCH_ONLINE, and no failure is recorded for the run.
C13_RetrievalFailureAbsorbed ==
    [][ /\ (pc = RETRIEVE) =>
              /\ pc' = GRADE
              /\ hist'.failure = None
              /\ hist'.retrieveOutcome \in {"none", "failed", "ok"}
              /\ (hist.startRetriever = None =>
                      hist'.retrieveOutcome = "none")
              /\ (hist'.retrieveOutcome \in {"none", "failed"} =>
                      /\ documents' = <<>>
                      /\ "online_search" \in keys'
                      /\ online_search')
        /\ (pc = GRADE /\ hist.retrieveOutcome \in {"none", "failed"}) =>
              /\ pc' = SEARCH
              /\ hist'.failure = None
              /\ hist'.graderCalls = 0 ]_vars

\* a run whose lookup raised has gone on to the web search
C13_Witness == pc = SEARCH /\ hist.retrieveOutcome = "failed"

\* ------------------------------------------------------------------ C14
\* C14: once a retriever lookup has failed, the retriever reference is
\* discarded on the workflow instance and in the session state, the lookup
\* is not retried in that run, and every later run, as long as no new
\* retriever is supplied, makes no lookup and reaches generation only
\* through a web search.
C14_InvalidationIsOneWay ==
    /\ hist.invalidated => (retriever = None /\ ss_retriever = None)
    /\ hist.retrieverCalls <= 1
    /\ (hist.invalidated /\ InRun /\ hist.retrieveOutcome # "failed") =>
           /\ hist.startRetriever = None
           /\ hist.retrieverCalls = 0
           /\ hist.retrieveOutcome \in {"pending", "none"}
           /\ (pc \in {GENERATE, CHECK, END} => hist.webCalls >= 1)

\* a run after the invalidation has returned an answer from the web
C14_Witness ==
    /\ hist.invalidated /\ pc = END
    /\ hist.retrieveOutcome = "none" /\ processed_file # None

\* ------------------------------------------------------------------ C17
\* C17: the routing after GRADE is needsOnlineSearch = (some verdict of
\* this grade round is insufficient) OR (the flag was set by RETRIEVE): if
\* true the next step is SEARCH_ONLINE, followed by GENERATE; if false the
\* next step is GENERATE with no WebSearch invocation before it.
C17_GradeRouting ==
    [][ /\ (pc = GRADE /\ pc' \notin {GRADE, ERROR}) =>
              LET flagged == "online_search" \in keys /\ online_search
                  rejected == \E i \in 1..Len(document_evaluations') :
                                  Lower(document_evaluations'[i]) # "yes"
                  needsOnlineSearch == rejected \/ flagged
              IN  /\ Len(document_evaluations') = Len(documents)
                  /\ online_search' = needsOnlineSearch
                  /\ pc' = (IF needsOnlineSearch THEN SEARCH ELSE GENERATE)
                  /\ hist'.webCalls = 0
        /\ (pc = SEARCH /\ hist.genCalls = 0) =>
              \/ pc' = GENERATE /\ hist'.webCalls = 1
              \/ pc' = ERROR /\ hist'.failure = "WebSearch" ]_vars

\* GRADE has routed two accepted passages straight to the Generator
C17_Witness ==
    /\ FirstGeneration /\ hist.webCalls = 0
    /\ Len(documents) >= 2 /\ ~online_search

\* ------------------------------------------------------------------ C18
\* C18: immediately after GRADE, searchMethod is "online" if and only if
\* the fallback flag is true after grading, and "documents" otherwise.
C18_SearchMethodAfterGrade ==
    [][ (pc = GRADE /\ pc' \notin {GRADE, ERROR}) =>
            /\ {"search_method", "online_search"} \subseteq keys'
            /\ (online_search' => search_method' = "online")
            /\ (~online_search' => search_method' = "documents") ]_vars

\* GRADE has just set the flag and the method for a rejected passage
C18_Witness ==
    /\ pc = SEARCH /\ hist.genCalls = 0 /\ hist.retrieveOutcome = "ok"
    /\ online_search /\ search_method = "online"

\* ------------------------------------------------------------------ C19
\* C19: at every GENERATE step, and in the returned state, searchMethod is
\* "online" if and only if WebSearch has been invoked earlier in the run,
\* and "documents" otherwise.
C19_SearchMethodReflectsSource ==
    pc \in {GENERATE, CHECK, END} =>
        /\ (search_method = "online" <=> hist.webCalls >= 1)
        /\ (search_method = "documents" <=> hist.webCalls = 0)

\* a generation after an escalation of a run that started on documents
C19_Witness ==
    /\ pc = GENERATE /\ hist.escalations >= 1
    /\ AllSufficient /\ search_method = "online"

\* ------------------------------------------------------------------ C20
\* C20: after GRADE the passage list is append-only: no step removes or
\* reorders a passage, the kept local passages are in retrieval order, and
\* every web passage is added at the end of the list.
C20_PassagesAppendOnly ==
    /\ [](pc \in {SEARCH, GENERATE, CHECK, END} =>
            \A i, j \in 1..Len(documents) :
                i < j =>
                    /\ documents[i].origin = "web" =>
                           documents[j].origin = "web"
                    /\ documents[i].origin = documents[j].origin =>
                           documents[i].id < documents[j].id
                    /\ documents[i].origin = "local" =>
                           hist.retrieved[documents[i].id] = documents[i])
    /\ [][ (pc \in {SEARCH, GENERATE, CHECK} /\ pc' # RETRIEVE) =>
              \/ documents' = documents
              \/ /\ pc = SEARCH
                 /\ documents' = Append(documents, WebDoc(hist'.webCalls)) ]_vars

\* two kept local passages followed by two web passages
C20_Witness ==
    /\ pc = GENERATE /\ Len(documents) >= 4
    /\ documents[2].origin = "local" /\ documents[3].origin = "web"

\* ------------------------------------------------------------------ C21
\* C21: each retrieved passage is graded exactly once and none is graded
\* again: the Grader is called once per passage returned by RETRIEVE, in
\* their order (a Grader failure ends the run after the calls made so far);
\* when GRADE has finished the verdict list has the length and order of the
\* retrieved passage list, it is not changed afterwards, no further Grader
\* call is made and no web passage is ever handed to the Grader.
C21_EachPassageGradedOnce ==
    /\ [](InRun =>
            /\ hist.graderCalls <= Len(hist.retrieved)
            /\ hist.graded = SubSeq(hist.retrieved, 1, hist.graderCalls)
            /\ \A i \in 1..Len(hist.graded) : hist.graded[i].origin = "local"
            /\ (Graded =>
                   /\ hist.graderCalls = Len(hist.retrieved)
                   /\ hist.graded = hist.retrieved
                   /\ Len(document_evaluations) = Len(hist.retrieved)))
    /\ [][ (InRun /\ Graded /\ pc' # RETRIEVE) =>
              /\ document_evaluations' = document_evaluations
              /\ hist'.graderCalls = hist.graderCalls
              /\ hist'.graded = hist.graded
              /\ pc' # GRADE ]_vars

\* three passages were graded once each, one was rejected, and a web
\* passage has been added and used without any further grading
C21_Witness ==
    /\ pc = CHECK /\ MixedVerdicts /\ hist.webCalls >= 1
    /\ Len(hist.retrieved) >= 3 /\ hist.graderCalls = 3

\* ------------------------------------------------------------------ C15
\* C15: invalidation is atomic and visible: in every interleaving, a call
\* of get_current_retriever that begins once a run has started to
\* invalidate the retriever neither returns the invalidated retriever nor
\* installs it again as self.retriever.
C15_InvalidationAtomic ==
    \A t \in Threads :
        (threads[t].late /\ threads[t].at \notin {"gcr_test", "gcr_session"}) =>
            /\ threads[t].current_retriever = None
            /\ ~threads[t].reinstalled

\* ------------------------------------------------------------------ C16
\* C16: concurrent runs that race on a failing retriever never crash: in
\* every interleaving a run whose lookup fails, or that finds the retriever
\* already cleared, leaves RETRIEVE with no passages and the fallback flag
\* set, and is routed to the web search after GRADE.
C16_RacingRunsDegrade ==
    \A t \in Threads :
        /\ threads[t].at # "crashed"
        /\ threads[t].outcome \in {"none", "failed"} =>
               /\ threads[t].at \in {GRADE, SEARCH}
               /\ threads[t].documents = <<>>
               /\ threads[t].online_search
        /\ (threads[t].at = GRADE /\ threads[t].outcome = "none") =>
               threads[t].current_retriever = None

\* one run has invalidated the retriever, another found it cleared, and
\* both have been routed to the web search
C16_Witness ==
    \E t, u \in Threads :
        /\ threads[t].outcome = "failed" /\ threads[t].at = SEARCH
        /\ threads[u].outcome = "none" /\ threads[u].at = SEARCH
        /\ threads[u].late

C23_OneWebPassagePerSearch ==
    [][ (pc = SEARCH /\ pc' = GENERATE) =>
            /\ Len(hist'.webResponse) \in 0..TAVILY_SEARCH_RESULTS
            /\ Len(hist'.webContent) = Len(hist'.webResponse)
            /\ \A i \in 1..Len(hist'.webResponse) :
                   <<hist'.webContent[i]>> = hist'.webResponse[i].content
            /\ Len(documents') = Len(documents) + 1
            /\ documents'[Len(documents')] = WebDoc(hist'.webCalls)
            /\ (documents # <<>> =>
                   documents' = Append(documents, WebDoc(hist'.webCalls)))
            /\ (documents = <<>> =>
                   documents' = <<WebDoc(hist'.webCalls)>>) ]_vars

\* a response of two snippets has become the one passage after two kept
\* local passages
C23_Witness ==
    /\ pc = GENERATE /\ hist.webCalls = 1
    /\ Len(hist.webResponse) = TAVILY_SEARCH_RESULTS
    /\ Len(documents) = 3 /\ documents[3] = WebDoc(1)

\* ------------------------------------------------------------------ C24
\* C24: when the retriever lookup succeeds, RETRIEVE hands the passages the
\* retriever returned to GRADE unmodified (same passages, same order), does
\* not set the fallback flag, and leaves the retriever reference on the
\* workflow instance and in the session state as it was.
C24_SuccessfulRetrieveIsFaithful ==
    [][ /\ (pc = RETRIEVE /\ hist'.retrieveOutcome = "ok") =>
              /\ pc' = GRADE
              /\ documents' = hist'.retrieved
              /\ "documents" \in keys'
              /\ "online_search" \notin keys'
              /\ retriever' = retriever
              /\ retriever' = hist.startRetriever
              /\ ss_retriever' = ss_retriever
        /\ (pc = GRADE /\ hist.retrieveOutcome = "ok" /\ pc' # ERROR) =>
              hist'.graded = hist.retrieved ]_vars

\* a lookup on the cached retriever has returned two passages while the
\* session state holds the retriever of a newer file
C24_Witness ==
    /\ pc = GRADE /\ hist.retrieveOutcome = "ok"
    /\ documents = RetrieverResult(2) /\ "online_search" \notin keys
    /\ retriever = "A" /\ ss_retriever = "B"

\* ------------------------------------------------------------------ C25
\* C25: in every CHECK step the passage list passed to the Groundedness
\* Checker is the passage list that was passed to the Generator invocation
\* that produced the answer being checked, and the answer checked is the
\* output of that invocation.
C25_CheckedAgainstGenerationEvidence ==
    [][ (pc = CHECK) =>
            /\ hist'.groundDocs = hist.genDocs
            /\ hist'.checkedAnswer = hist.genOut
            /\ hist'.genDocs = hist.genDocs
            /\ hist'.genOut = hist.genOut ]_vars

\* an answer generated from two local passages and a web passage after an
\* escalation has been checked and returned
C25_Witness ==
    /\ pc = END /\ hist.escalations >= 1 /\ hist.groundCalls >= 2
    /\ Len(hist.groundDocs) >= 3 /\ hist.groundDocs[1].origin = "local"

\* ------------------------------------------------------------------ C26
\* what a run receives in a step: the retriever availability and the
\* question at its start, and the output of the collaborator called in the
\* step (lookup outcome and passages, grader verdicts, web response,
\* generated answer, groundedness and relevance verdicts, or its failure).
\* The indices of the verdicts just returned that are "sufficient":
C26_Accepted ==
    {i \in 1..Len(document_evaluations') :
        Lower(document_evaluations'[i]) = "yes"}
\* the fallback decision those inputs give
C26_NeedsSearch ==
    \/ hist.retrieveOutcome # "ok"
    \/ C26_Accepted # 1..Len(document_evaluations')

\* C26: routing is deterministic: in every step the next step and the
\* whole run state after it are a function of the run state before it and
\* of what the collaborator returned in the step, so two runs with the
\* same question, retriever availability and collaborator outputs go
\* through the same steps and end in the same state.
C26_RoutingIsDeterministic ==
    [][ /\ (pc = RETRIEVE) =>
              /\ pc' = GRADE
              /\ (hist'.retrieveOutcome = "none") <=> (hist.startRetriever = None)
              /\ documents' = (IF hist'.retrieveOutcome = "ok"
                                 THEN hist'.retrieved ELSE <<>>)
              /\ ("online_search" \in keys') <=> (hist'.retrieveOutcome # "ok")
              /\ (hist'.retrieveOutcome # "ok" => online_search')
              /\ <<question, search_method, solution, document_evaluations>>'
                   = <<question, search_method, solution, document_evaluations>>
        /\ (pc = GRADE) =>
              IF hist'.failure # None
                THEN pc' = ERROR /\ chanVars' = chanVars
                ELSE /\ pc' = (IF C26_NeedsSearch THEN SEARCH ELSE GENERATE)
                     /\ online_search' = C26_NeedsSearch
                     /\ search_method' = (IF C26_NeedsSearch THEN "online"
                                                              ELSE "documents")
                     /\ Len(document_evaluations') = Len(documents)
                     /\ Len(documents') = Cardinality(C26_Accepted)
                     /\ \A i \in C26_Accepted :
                           documents'[Cardinality({m \in C26_Accepted : m <= i})]
                               = documents[i]
                     /\ <<question, solution>>' = <<question, solution>>
        /\ (pc = SEARCH) =>
              IF hist'.failure # None
                THEN pc' = ERROR /\ chanVars' = chanVars
                ELSE /\ pc' = GENERATE
                     /\ documents' = Append(documents, WebDoc(hist'.webCalls))
                     /\ hist'.webCalls = hist.webCalls + 1
                     /\ search_method' = "online"
                     /\ <<question, online_search, solution,
                          document_evaluations>>'
                          = <<question, online_search, solution,
                              document_evaluations>>
        /\ (pc = GENERATE) =>
              IF hist'.failure # None
                THEN pc' = ERROR /\ chanVars' = chanVars
                ELSE /\ pc' = CHECK
                     /\ solution' = hist'.genOut
                     /\ <<question, documents, online_search, search_method,
                          document_evaluations>>'
                          = <<question, documents, online_search, search_method,
                              document_evaluations>>
        /\ (pc = CHECK) =>
              /\ chanVars' = chanVars
              /\ pc' = (IF hist'.failure # None THEN ERROR
                        ELSE IF doc_relevance_score' = "False" THEN GENERATE
                        ELSE IF question_relevance_score' = "True" THEN END
                        ELSE SEARCH)
        /\ (pc' = RETRIEVE) =>
              /\ question' = hist'.origQuestion
              /\ keys' = {"question"}
              /\ hist'.startRetriever = retriever'
              /\ hist'.startRetriever
                    = (IF retriever # None THEN retriever ELSE ss_retriever) ]_vars

\* a run has gone through grading with a rejected passage, a web search, a
\* hallucination retry and an escalation, and has returned
C26_Witness ==
    /\ pc = END /\ MixedVerdicts /\ hist.escalations >= 1
    /\ hist.genCalls >= 2 /\ hist.webCalls >= 2

\* ------------------------------------------------------------------ C27
\* C27: every run follows the fixed step order: RETRIEVE is entered only
\* at the start of a run and GRADE only from RETRIEVE, so each executes
\* once; RETRIEVE is immediately followed by GRADE; GENERATE is entered
\* only when GRADE has finished; a SEARCH_ONLINE that returns is
\* immediately followed by GENERATE and a GENERATE that returns by CHECK
\* (a failing collaborator ends the run instead); after a CHECK, whatever
\* its verdicts, neither RETRIEVE nor GRADE is entered again.
C27_FixedStepOrder ==
    [][ /\ (pc' = RETRIEVE) => pc \in {IDLE, END, ERROR}
        /\ (pc = RETRIEVE) => pc' = GRADE
        /\ (pc' = GRADE) => (pc = RETRIEVE /\ ~Graded)
        /\ (pc = GRADE) => pc' \in {SEARCH, GENERATE, ERROR}
        /\ (pc' = GENERATE) => (Graded' /\ pc \in {GRADE, SEARCH, CHECK})
        /\ (pc' = SEARCH) => (Graded' /\ pc \in {GRADE, CHECK})
        /\ (pc = SEARCH) =>
              \/ pc' = GENERATE
              \/ pc' = ERROR /\ hist'.failure = "WebSearch"
        /\ (pc = GENERATE) =>
              \/ pc' = CHECK
              \/ pc' = ERROR /\ hist'.failure = "Generator"
        /\ (pc' = CHECK) => pc = GENERATE
        /\ (pc = CHECK) =>
              /\ pc' \in {GENERATE, SEARCH, END, ERROR}
              /\ (pc' = ERROR => hist'.failure \in {"GroundednessChecker",
                                                    "RelevanceChecker"})
              /\ hist'.retrieverCalls = hist.retrieverCalls
              /\ hist'.graderCalls = hist.graderCalls
        /\ (pc' = END) => pc \in {CHECK, END} ]_vars

\* after a hallucination retry and an escalation the run is in CHECK again,
\* with one lookup and one grade round behind it
C27_Witness ==
    /\ pc = CHECK /\ hist.escalations >= 1 /\ hist.genCalls >= 2
    /\ hist.groundCalls >= 2 /\ doc_relevance_score = "False"
    /\ hist.retrieverCalls = 1 /\ hist.graderCalls = Len(hist.retrieved)
    /\ Len(hist.retrieved) >= 1

\* ------------------------------------------------------------------ C28
\* C28: each escalation appends exactly one new web passage and keeps all
\* earlier passages: at every GENERATE step (and at the CHECK after it and
\* in the returned state) the passage list is the local passages kept by
\* GRADE followed by one web passage per WebSearch invocation made so far,
\* and the number of WebSearch invocations is the number of escalations
\* plus the initial fallback, if there was one.
C28_EvidenceGrowsByOnePerSearch ==
    pc \in {GENERATE, CHECK, END} =>
        /\ Len(documents) = Cardinality(SufficientSet) + hist.webCalls
        /\ \A k \in 1..hist.webCalls :
               documents[Cardinality(SufficientSet) + k] = WebDoc(k)
        /\ \A i \in 1..Cardinality(SufficientSet) :
               documents[i].origin = "local"
        /\ hist.webCalls
               = hist.escalations + (IF online_search THEN 1 ELSE 0)

\* the generation after the second escalation of a run that started on
\* two kept local passages
C28_Witness ==
    /\ pc = GENERATE /\ hist.escalations = 2 /\ ~online_search
    /\ Cardinality(SufficientSet) = 2 /\ Len(documents) = 4

\* ------------------------------------------------------------------ C29
\* C29: a hallucination retry (a CHECK with supported=false and the
\* GENERATE that follows it) changes only the candidate answer and the
\* groundedness verdict: the question, the passage list, the evidence
\* verdicts, the fallback flag and searchMethod are left unchanged, and so
\* is the relevance verdict.
C29_RetryChangesOnlyTheAnswer ==
    [][ /\ (pc = CHECK /\ pc' # ERROR /\ doc_relevance_score' = "False") =>
              /\ pc' = GENERATE
              /\ chanVars' = chanVars
              /\ question_relevance_score' = question_relevance_score
        /\ (pc = GENERATE /\ hist.genCalls > 0
                          /\ doc_relevance_score = "False") =>
              /\ question' = question
              /\ documents' = documents
              /\ document_evaluations' = document_evaluations
              /\ online_search' = online_search
              /\ search_method' = search_method
              /\ keys' = keys
              /\ checkVars' = checkVars
              /\ (pc' = CHECK => solution' = hist'.genOut) ]_vars

\* an answer built on a kept local passage and a web passage was found
\* ungrounded and has been generated again
C29_Witness ==
    /\ pc = CHECK /\ hist.genCalls >= 2 /\ doc_relevance_score = "False"
    /\ hist.webCalls >= 1 /\ Len(documents) >= 2
    /\ documents[1].origin = "local" /\ search_method = "online"

\* ------------------------------------------------------------------ C30
\* C30: the question is immutable during a run: the question channel holds
\* the argument of process_question from the start of the run to its end,
\* and every collaborator call of the run (retriever lookup, Grader,
\* WebSearch for the initial fallback and for escalations, Generator,
\* Relevance Checker) has received exactly that question.
C30_QuestionIsImmutable ==
    InRun =>
        /\ question = hist.origQuestion
        /\ "question" \in keys
        /\ \A c \in Askers : hist.asked[c] \subseteq {hist.origQuestion}
        /\ (hist.retrieverCalls >= 1 => hist.asked["Retriever"] # {})
        /\ (hist.graderCalls >= 1 => hist.asked["Grader"] # {})
        /\ (hist.genCalls >= 1 => hist.asked["Generator"] # {})
        /\ (hist.relCalls >= 1 => hist.asked["RelevanceChecker"] # {})
        /\ (hist.webCalls >= 1 =>
               /\ hist.asked["WebSearch"] # {}
               /\ hist.webQuery = hist.origQuestion)

\* every collaborator has been called in a run that escalated to a second
\* web search, and the run has returned
C30_Witness ==
    /\ pc = END /\ hist.escalations >= 1 /\ hist.webCalls >= 2
    /\ \A c \in Askers : hist.asked[c] = {question}

\* ------------------------------------------------------------------ C31
\* the score, compared without regard to case, equals "yes"
C31_IsYes(score) == score \in {"yes", "YES"}
\* the passages of docs whose verdict is such a score, in their order
C31_Kept(docs, evals) ==
    LET idx == SelectSeq([i \in 1..Len(docs) |-> i],
                         LAMBDA i : C31_IsYes(evals[i]))
    IN  [j \in 1..Len(idx) |-> docs[idx[j]]]

\* C31: a GRADE step that returns keeps a passage for generation if and
\* only if its grader score equals "yes" without regard to case: the
\* passages left are exactly those with such a score, in their order; any
\* other score ("no" or an unexpected string) drops its passage and sets
\* the fallback flag; and the verdict list holds one verdict per graded
\* passage whether the passage was kept or dropped.
C31_KeptIffScoreIsYes ==
    [][ (pc = GRADE /\ pc' \in {SEARCH, GENERATE}) =>
          /\ Len(document_evaluations') = Len(documents)
          /\ \A i \in 1..Len(documents) : document_evaluations'[i] \in Scores
          /\ documents' = C31_Kept(documents, document_evaluations')
          /\ ((\E i \in 1..Len(documents) :
                   ~C31_IsYes(document_evaluations'[i])) => online_search')
          /\ ((\A i \in 1..Len(documents) :
                   C31_IsYes(document_evaluations'[i]))
                => online_search' = GetOnlineSearch) ]_vars

\* three passages were graded "YES", "maybe" and "yes": the first and the
\* third are kept, the second is dropped and the fallback flag is set
C31_Witness ==
    /\ pc = SEARCH /\ hist.webCalls = 0
    /\ document_evaluations = <<"YES", "maybe", "yes">>
    /\ documents = <<LocalDoc(1), LocalDoc(3)>>
    /\ online_search

\* ------------------------------------------------------------------ C32
\* the latest check of the run rejected the answer (the Groundedness
\* Checker found it unsupported or the Relevance Checker found that it
\* does not address the question) and the run is on its way to the next
\* attempt
C32_Rejected ==
    /\ pc \in {GENERATE, SEARCH}
    /\ hist.groundCalls >= 1
    /\ \/ doc_relevance_score = BoolStr(FALSE)
       \/ question_relevance_score = BoolStr(FALSE)

\* C32: (liveness) if no collaborator call ends a run with an exception
\* and the checkers do not reject forever (from some attempt on both
\* checkers accept), then every started run eventually reaches END with
\* an answer in the returned state.
C32_AcceptedRunTerminates ==
    ([](pc # ERROR) /\ <>[](~C32_Rejected))
        => ((pc = RETRIEVE) ~> (pc = END /\ solution \in Answers))

\* a run has returned an answer after the checkers had rejected earlier
\* attempts, one of them by escalation to a web search
C32_Witness ==
    /\ pc = END /\ solution \in Answers /\ hist.failure = None
    /\ hist.groundCalls >= 2 /\ hist.escalations >= 1
    /\ doc_relevance_score = BoolStr(TRUE)
    /\ question_relevance_score = BoolStr(TRUE)

\* ------------------------------------------------------------------ C33
\* C33: each run retrieves with the retriever most recently supplied by
\* the caller: while a run is in progress whose RETRIEVE step has invoked
\* a retriever successfully, that retriever is the one the caller stored
\* last in the session state, also when an earlier run has cached the
\* retriever of an earlier file on the workflow instance.
C33_RetrievesWithLatestRetriever ==
    (~BetweenRuns /\ hist.retrieveOutcome = "ok") =>
        /\ hist.startRetriever = ss_retriever
        /\ retriever = ss_retriever

\* ------------------------------------------------------------------ C34
\* C34: in the state returned by a successful run the online_search flag
\* is true if and only if WebSearch was invoked at least once during the
\* run, the invocations caused by an escalation after a failed relevance
\* check included.
C34_FlagIffWebSearchInvoked ==
    (pc = END) => (GetOnlineSearch <=> hist.webCalls >= 1)

\* ------------------------------------------------------------------ C35
\* C35: questions are answered only against the index of the currently
\* uploaded file: an upload whose processing fails or whose type is
\* unsupported leaves processed_file and the retriever of the session
\* state unchanged, and while the file in the upload widget is one whose
\* processing failed, no run retrieves from a retriever (every retriever
\* there is belongs to a previously processed file).
C35_FailedUploadIsNotAnswered ==
    /\ [][ (BetweenRuns /\ pc' = pc /\ user_file' # processed_file') =>
              /\ processed_file' = processed_file
              /\ ss_retriever' = ss_retriever ]_vars
    /\ []((~BetweenRuns /\ user_file # None /\ user_file # processed_file)
              => hist.retrieverCalls = 0)

=============================================================================
